---- MODULE Spec2Model ----
(***************************************************************************)
(* Account ledger, registration and resource counters of the CMS backend.  *)
(*                                                                         *)
(* The relational store is modelled as tables (sequences of rows in        *)
(* insertion order).  One SQL statement is one atomic step; everything a   *)
(* Go function does between two statements is local and is folded into the *)
(* step of the statement that precedes it.  Currency amounts are integers  *)
(* counted in units of 0.01.                                               *)
(***************************************************************************)
EXTENDS Integers, Sequences, FiniteSets, TLC

\* ---------------------------------------------------------------- bounds
MaxCalls   == 2     \* ledger calls started in one behaviour
MaxAmount  == 2     \* largest amount a caller passes
MaxInitial == 1     \* largest amount recharged before the behaviour starts
MaxIncr    == 2     \* counter calls started in one behaviour
MaxResources == 3   \* rows of table resources, those being inserted included
MaxCodes   == 2     \* verification codes sent in one behaviour
MaxTime    == 2     \* the latest time of the clock

Procs   == {"w1", "w2"}              \* request workers of the ledger
Idents  == {"", "u1", "u2"}          \* user identities callers may pass
Amounts == -1 .. MaxAmount
Levels  == {"handler", "service", "store"}
\* what a request carries in its Authorization header: nothing, something that
\* is not "Bearer <token>", a token that does not verify, or a token that does
Auths   == {"none", "malformed", "invalid", "valid"}

RegProcs  == {"r1", "r2"}            \* workers that each run one Register call
Usernames == {"", "alice", "bob"}    \* usernames a registration may ask for

CProcs  == {"c1", "c2"}              \* request workers of the resource counters
ResIds  == {0, 1, 2, 3}              \* resource ids callers may pass
Kinds   == {"view", "like", "comment"}
LProcs  == {"l1", "l2"}              \* request workers of CreateResource and the queries
VProcs  == {"v1", "v2"}              \* request workers that verify a code
\* comment texts callers may pass, as sequences of characters
Contents == { <<>>, <<" ">>, <<" ", " ">>, <<"a">>, <<" ", "a">>, <<"a", " ">>,
              <<" ", "a", " ">>, <<"a", " ", "a">> }

VARIABLES
    users,          \* table users: rows [uuid, username]
    user_account,   \* table user_account: rows [user_uuid, balance, total_recharge, total_consume]
    call,           \* per worker: the ledger call it is executing
    last,           \* the call that returned last, with its result
    started,        \* number of ledger calls started so far
    recharged,      \* per identity: sum of the amounts RechargeBalance acknowledged
    reg,            \* per registration worker: the Register call it is executing
    resources,      \* table resources: rows [id, user_id, title, text_content,
                    \* code_content, author, *_count], in the order of insertion
    rcall,          \* per worker: the counter call it is executing
    rlast,          \* the counter call that returned last, with its result
    rstarted,       \* number of counter calls started so far
    incremented,    \* per resource id and counter: increments acknowledged
    lcall,          \* per worker: the CreateResource or GetResourceList call it executes
    llast,          \* the result of the resource call that returned last, until
                    \* the next call gets past its checks
    codeStore,      \* the entry of codeStore for the one email address: no item or
                    \* one item [code, expireAt]
    now,            \* the time of the clock
    vcall,          \* per worker: the VerifyCodeFromMap call it is executing
    vlast,          \* the VerifyCodeFromMap call that returned last, with its result
    accepted,       \* per code: the VerifyCodeFromMap calls that returned nil for it
    issued          \* number of codes sent so far

ledgerVars == <<call, last, started, recharged>>
counterVars == <<rcall, rlast, rstarted, incremented>>
libVars    == <<lcall, llast>>
resVars    == <<resources, counterVars, libVars>>
verifyVars == <<codeStore, now, vcall, vlast, accepted, issued>>
vars == <<users, user_account, ledgerVars, reg, resVars, verifyVars>>

\* ------------------------------------------------------- table primitives

\* SELECT ... FROM user_account WHERE user_uuid = ? (all matching rows, in order)
Lookup(t, u) == SelectSeq(t, LAMBDA r : r.user_uuid = u)

\* number of rows an UPDATE ... WHERE user_uuid = ? touches
RowsAffectedOne(t, u) == 1
RowsAffected(t, u) == Len(Lookup(t, u))

\* the row INSERT INTO user_account (user_uuid) VALUES (?) creates: the columns
\* the statement does not name take the defaults of the table, which are zero
NewAccountRow(u) ==
    [user_uuid |-> u, balance |-> 0, total_recharge |-> 0, total_consume |-> 0]

\* the row of an account created for u and recharged by r in all since
RechargedRow(u, r) ==
    [user_uuid |-> u, balance |-> r, total_recharge |-> r, total_consume |-> 0]

\* unique index uk_user_uuid of the table: the INSERT is refused with error 1062
\* when a row with the key is already present
DuplicateKey(t, u) == RowsAffected(t, u) > 0

\* CreateAccount's answer to an INSERT that failed: 1062 is reported as a
\* duplicate account, anything else as a failed insert
InsertErrorIgnored(duplicate) == "ok"
InsertError(duplicate) == IF duplicate THEN "Conflict" ELSE "StorageFailure"

\* SET balance = balance + ?, total_recharge = total_recharge + ?
RechargeRowTwice(r, a) ==
    [r EXCEPT !.balance = @ + a + a, !.total_recharge = @ + a + a]
RechargeRow(r, a) ==
    [r EXCEPT !.balance = @ + a, !.total_recharge = @ + a]

\* SET balance = balance - ?, total_consume = total_consume + ?
DeductRowNoTotal(r, a) == [r EXCEPT !.balance = @ - a]
DeductRowReversal(r, a) ==
    [r EXCEPT !.balance = @ - a, !.total_consume = @ - a]
DeductRow(r, a) ==
    [r EXCEPT !.balance = @ - a, !.total_consume = @ + a]

\* UPDATE user_account SET ... WHERE user_uuid = ?
UpdateRechargeAll(t, u, a) == [i \in DOMAIN t |-> RechargeRow(t[i], a)]
UpdateRecharge(t, u, a) ==
    [i \in DOMAIN t |-> IF t[i].user_uuid = u THEN RechargeRow(t[i], a) ELSE t[i]]

UpdateDeduct(t, u, a) ==
    [i \in DOMAIN t |-> IF t[i].user_uuid = u THEN DeductRow(t[i], a) ELSE t[i]]

\* SELECT ... FROM users WHERE uuid = ?
UserExists(t, u) == \E i \in DOMAIN t : t[i].uuid = u

\* ------------------------------------------------------------ ledger calls

\* a worker that executes no call (auth is "direct" for a call that does not
\* come in as a request; ident is the identity the middleware put into the
\* request context and body the uuid field of the request body)
Idle == [pc |-> "idle", op |-> "none", level |-> "none", uuid |-> "", amount |-> 0,
         pre |-> <<>>, auth |-> "direct", ident |-> "", body |-> ""]

\* no call has returned yet
NoReturn == [op |-> "none", level |-> "none", uuid |-> "", amount |-> 0, pre |-> <<>>,
             auth |-> "direct", ident |-> "",
             res |-> "none", code |-> 0, snap |-> <<>>]

\* balance.LessThan(amount) in DeductBalance
InsufficientLE(balance, amount) == balance <= amount
Insufficient(balance, amount) == balance < amount

\* amount.LessThanOrEqual(decimal.Zero)
NonPositiveStrict(amount) == amount < 0
NonPositive(amount) == amount <= 0

\* errors.Is(err, errors.New(msg)): the target is a newly allocated error value,
\* which is identical to no error in the chain of err, whatever its message
ErrorsIsNew(res, target) == FALSE

\* StaffHandler.Recharge / Deduct / GetAccountByUserUUID: the code answered for
\* the result of the service
HandlerCode(op, res) ==
    CASE res = "ok" -> 200
      [] op = "GetAccount" /\ ErrorsIsNew(res, "AccountNotFound") -> 404
      [] op = "GetAccount" -> 500
      [] res \in {"UserNotFound", "UserLookupFailed"} -> 400
      [] res = "InsufficientFunds" /\ op = "Deduct" -> 400
      [] OTHER -> 500

\* the code a handler answers for result res of operation op: a non-positive
\* amount is refused with 400 by the handler itself, any other result comes from
\* the service
EndpointCode(op, res) ==
    IF res = "InvalidAmount" THEN 400 ELSE HandlerCode(op, res)

\* the call c returns res to its caller (and the handler, if any, answers code)
Returned(c, res, code, snap) ==
    [op |-> c.op, level |-> c.level, uuid |-> c.uuid, amount |-> c.amount,
     pre |-> c.pre, auth |-> c.auth, ident |-> c.ident,
     res |-> res, code |-> code, snap |-> snap]

\* the call of worker p ends with res
Finish(p, res, snap) ==
    /\ last' = Returned(call[p], res,
                        IF call[p].level = "handler"
                        THEN HandlerCode(call[p].op, res) ELSE 0, snap)
    /\ call' = [call EXCEPT ![p] = Idle]

Goto(p, pc) ==
    /\ call' = [call EXCEPT ![p].pc = pc]
    /\ UNCHANGED last

\* the first statement of the store operation of op
StorePc(op) ==
    CASE op = "Recharge" -> "r_update"
      [] op = "Deduct" -> "d_read"
      [] OTHER -> "c_insert"

\* A worker starts a call: the arguments are bound and everything that precedes
\* the first statement on user_account runs.  The ledger never writes the users
\* table, so userRepo.GetUserByUuid is part of this step; lookupFails is the
\* outcome of its query.
BeginWith(base, p, op, level, u, a, lookupFails) ==
    LET c == [base EXCEPT !.op = op, !.level = level, !.uuid = u, !.amount = a,
                          !.pre = Lookup(user_account, u)]
        reject(res, code) ==
            /\ last' = Returned(c, res, code, <<>>)
            /\ UNCHANGED call
        enter(pc) ==
            /\ call' = [call EXCEPT ![p] = [c EXCEPT !.pc = pc]]
            /\ UNCHANGED last
        money == op \in {"Recharge", "Deduct"}
    IN  IF level = "handler" /\ money /\ NonPositive(a)
          THEN reject("InvalidAmount", 400)
        ELSE IF level # "store" /\ u = ""
          THEN reject("InvalidIdentity", HandlerCode(op, "InvalidIdentity"))
        ELSE IF money /\ NonPositive(a)
          THEN reject("InvalidAmount", 0)
        ELSE IF level # "store" /\ money /\ lookupFails
          THEN reject("UserLookupFailed",
                      IF level = "handler" THEN HandlerCode(op, "UserLookupFailed") ELSE 0)
        ELSE IF level # "store" /\ money /\ ~UserExists(users, u)
          THEN reject("UserNotFound",
                      IF level = "handler" THEN HandlerCode(op, "UserNotFound") ELSE 0)
        ELSE enter(StorePc(op))

Begin(p, op, level, u, a, lookupFails) ==
    BeginWith(Idle, p, op, level, u, a, lookupFails)

CanStart(p) ==
    /\ call[p].pc = "idle"
    /\ started < MaxCalls

\* Recharge / Deduct entered at one of levels: StaffHandler.Recharge / Deduct,
\* accountServiceImpl.Recharge / Deduct, or RechargeBalance / DeductBalance
CallAt(p, levels) ==
    /\ CanStart(p)
    /\ started' = started + 1
    /\ \E op \in {"Recharge", "Deduct"}, level \in levels,
          u \in Idents, a \in Amounts, lookupFails \in BOOLEAN :
            /\ level = "handler" => u # ""
            /\ Begin(p, op, level, u, a, lookupFails)
    /\ UNCHANGED <<users, user_account, recharged, reg, resVars, verifyVars>>

\* a request worker calls the ledger service or the account store
Call(p) == CallAt(p, {"service", "store"})

\* accountServiceImpl.CreateAccount, or accountRepoImpl.CreateAccount directly
CallCreate(p) ==
    /\ CanStart(p)
    /\ started' = started + 1
    /\ \E level \in {"service", "store"}, u \in Idents :
            Begin(p, "CreateAccount", level, u, 0, FALSE)
    /\ UNCHANGED <<users, user_account, recharged, reg, resVars, verifyVars>>

\* dto.AccountResponse built from the account that was read
AccountResponse(account) ==
    [user_uuid |-> account.user_uuid, balance |-> account.balance,
     total_recharge |-> account.total_recharge,
     total_consume |-> account.total_consume]

\* what follows a successful store operation
AfterStore(p) ==
    IF call[p].level = "store" THEN Finish(p, "ok", <<>>) ELSE Goto(p, "s_reread")

\* accountRepoImpl.RechargeBalance: the UPDATE and its RowsAffected check
RechargeUpdate(p) ==
    /\ call[p].pc = "r_update"
    /\ LET u == call[p].uuid
           a == call[p].amount
       IN \/ /\ Finish(p, "StorageFailure", <<>>)
             /\ UNCHANGED <<user_account, recharged>>
          \/ IF RowsAffected(user_account, u) = 0
               THEN /\ Finish(p, "AccountNotFound", <<>>)
                    /\ UNCHANGED <<user_account, recharged>>
               ELSE /\ user_account' = UpdateRecharge(user_account, u, a)
                    /\ recharged' = [recharged EXCEPT ![u] = @ + a]
                    /\ AfterStore(p)
    /\ UNCHANGED <<users, started, reg, resVars, verifyVars>>

\* accountRepoImpl.DeductBalance: SELECT balance and the sufficiency check
DeductRead(p) ==
    /\ call[p].pc = "d_read"
    /\ LET rows == Lookup(user_account, call[p].uuid)
       IN \/ Finish(p, "StorageFailure", <<>>)
          \/ IF rows = <<>>
               THEN Finish(p, "AccountNotFound", <<>>)
               ELSE IF Insufficient(rows[1].balance, call[p].amount)
                 THEN Finish(p, "InsufficientFunds", <<>>)
                 ELSE Goto(p, "d_update")
    /\ UNCHANGED <<users, user_account, started, recharged, reg, resVars, verifyVars>>

\* accountRepoImpl.DeductBalance: the UPDATE and its RowsAffected check
DeductUpdate(p) ==
    /\ call[p].pc = "d_update"
    /\ LET u == call[p].uuid
           a == call[p].amount
       IN \/ /\ Finish(p, "StorageFailure", <<>>)
             /\ UNCHANGED user_account
          \/ IF RowsAffected(user_account, u) = 0
               THEN /\ Finish(p, "UpdateAnomaly", <<>>)
                    /\ UNCHANGED user_account
               ELSE /\ user_account' = UpdateDeduct(user_account, u, a)
                    /\ AfterStore(p)
    /\ UNCHANGED <<users, started, recharged, reg, resVars, verifyVars>>

\* accountServiceImpl.Recharge / Deduct step 4: the account is read again
RereadStale(p) ==
    /\ call[p].pc = "s_reread"
    /\ Finish(p, "ok", call[p].pre)
    /\ UNCHANGED <<users, user_account, started, recharged, reg, resVars, verifyVars>>

Reread(p) ==
    /\ call[p].pc = "s_reread"
    /\ LET rows == Lookup(user_account, call[p].uuid)
       IN \/ Finish(p, "RereadFailed", <<>>)
          \/ IF rows = <<>>
               THEN Finish(p, "AccountMissing", <<>>)
               ELSE Finish(p, "ok", <<AccountResponse(rows[1])>>)
    /\ UNCHANGED <<users, user_account, started, recharged, reg, resVars, verifyVars>>

\* accountRepoImpl.CreateAccount with tx = nil: the INSERT
CreateInsert(p) ==
    /\ call[p].pc = "c_insert"
    /\ LET u == call[p].uuid
       IN \/ /\ Finish(p, InsertError(FALSE), <<>>)
             /\ UNCHANGED user_account
          \/ IF DuplicateKey(user_account, u)
               THEN /\ Finish(p, InsertError(TRUE), <<>>)
                    /\ UNCHANGED user_account
               ELSE /\ user_account' = Append(user_account, NewAccountRow(u))
                    /\ Finish(p, "ok", <<>>)
    /\ UNCHANGED <<users, started, recharged, reg, resVars, verifyVars>>

\* accountServiceImpl.GetAccountByUserUUID entered at level: the identity check,
\* then accountRepoImpl.GetAccountByUserUUID, which is one SELECT.  The store
\* answers nil, nil when there is no row; the service turns that into the error
\* "no account information found".  The call reads one consistent state of the
\* table, so it is one step.
GetAccount(base, p, level, u, selectFails) ==
    LET c    == [base EXCEPT !.op = "GetAccount", !.level = level, !.uuid = u,
                             !.pre = Lookup(user_account, u)]
        rows == Lookup(user_account, u)
        res  == IF u = "" THEN "InvalidIdentity"
                ELSE IF selectFails THEN "StorageFailure"
                ELSE IF rows = <<>> THEN "AccountNotFound"
                ELSE "ok"
    IN  /\ last' = Returned(c, res,
                            IF level = "handler" THEN HandlerCode("GetAccount", res) ELSE 0,
                            IF res = "ok" THEN <<AccountResponse(rows[1])>> ELSE <<>>)
        /\ UNCHANGED call

\* a request worker calls accountServiceImpl.GetAccountByUserUUID
CallGet(p) ==
    /\ CanStart(p)
    /\ started' = started + 1
    /\ \E u \in Idents, selectFails \in BOOLEAN :
            GetAccount(Idle, p, "service", u, selectFails)
    /\ UNCHANGED <<users, user_account, recharged, reg, resVars, verifyVars>>

\* JWTMiddleware: the request goes on to the handler, with the identity of the
\* token's claims in its context, only if the header holds a token that verifies
MiddlewareLetsAll(auth) == TRUE
MiddlewarePasses(auth) == auth = "valid"

\* the identity check at the head of each account handler: the identity in the
\* context must be a non-blank string
IdentityUsable(u) == u # ""

\* StaffHandler.Recharge / Deduct: req.UserUUID = realUUID, after the body was
\* bound into req: the identity handed to the service is the one of the context
RequestUUIDFromBody(realUUID, bodyUUID) == bodyUUID
RequestUUID(realUUID, bodyUUID) == realUUID

\* a request to /account/get-account, /account/recharge or /account/deduct: the
\* middleware, then StaffHandler.GetAccountByUserUUID / Recharge / Deduct with
\* the identity u the token claims (none without a token), the uuid field body
\* (one of Bodies) and the amount a of the request body (a request that is
\* refused before the service is called carries no uuid field: nothing reads it)
RequestWith(p, Bodies) ==
    /\ CanStart(p)
    /\ started' = started + 1
    /\ \E op \in {"GetAccount", "Recharge", "Deduct"}, auth \in Auths,
          u \in Idents, body \in Bodies, a \in Amounts, fails \in BOOLEAN :
         LET base == [Idle EXCEPT !.auth = auth, !.ident = u, !.body = body]
             c    == [base EXCEPT !.op = op, !.level = "handler", !.uuid = u,
                                  !.amount = a, !.pre = Lookup(user_account, u)]
         IN  /\ auth \in {"none", "malformed"} => u = ""
             /\ op = "GetAccount" => a = 0
             /\ ( op = "GetAccount" \/ ~MiddlewarePasses(auth) \/ ~IdentityUsable(u)
                    \/ NonPositive(a) ) => body = ""
             /\ IF ~MiddlewarePasses(auth) \/ ~IdentityUsable(u)
                  THEN /\ last' = Returned(c, "Unauthenticated", 401, <<>>)
                       /\ UNCHANGED call
                ELSE IF op = "GetAccount"
                  THEN GetAccount(base, p, "handler", u, fails)
                ELSE BeginWith(base, p, op, "handler", RequestUUID(u, body), a, fails)
    /\ UNCHANGED <<users, user_account, recharged, reg, resVars, verifyVars>>

\* a request of a client that leaves the uuid field out, as the API documents
Request(p) == RequestWith(p, {""})

\* a request of a client that may fill the uuid field with any identity
RequestAnyBody(p) == RequestWith(p, Idents)

\* ----------------------------------------------------------- registration

\* pkg.GenerateUUID: a fresh identity for each Register call
RegUUID(p) == IF p = "r1" THEN "n1" ELSE "n2"

RegIdle == [pc |-> "idle", username |-> "", err |-> "nil", ret |-> "none",
            txUsers |-> <<>>, txAccounts |-> <<>>, committed |-> FALSE]

\* SELECT ... FROM users WHERE username = ?
UsernameExists(t, name) == \E i \in DOMAIN t : t[i].username = name

\* rows other open transactions have inserted into users and not yet committed
PendingUsernames(p) ==
    UNION { { reg[q].txUsers[i].username : i \in DOMAIN reg[q].txUsers } :
              q \in RegProcs \ {p} }

\* the deferred function of Register: what it does with the transaction, given
\* the value of the function-scope variable err
DeferredAction(err) == IF err # "nil" THEN "rollback" ELSE "commit"

\* staffServiceImpl.Register up to db.BeginTx: field checks, CheckUsernameExist,
\* then the transaction is opened
RegBegin(p) ==
    /\ reg[p].pc = "idle"
    /\ \E name \in Usernames, checkFails \in BOOLEAN, beginFails \in BOOLEAN :
         LET r == [RegIdle EXCEPT !.username = name]
             fail(ret) == [r EXCEPT !.pc = "done", !.ret = ret]
         IN reg' = [reg EXCEPT ![p] =
              IF name = "" THEN fail("InvalidUsername")
              ELSE IF checkFails THEN fail("CheckFailed")
              ELSE IF UsernameExists(users, name) THEN fail("UsernameTaken")
              ELSE IF beginFails THEN fail("BeginTxFailed")
              ELSE [r EXCEPT !.pc = "insert_user"]]
    /\ UNCHANGED <<users, user_account, ledgerVars, resVars, verifyVars>>

\* userRepo.CreateUser(ctx, tx, newUser): the INSERT runs inside tx.  Its error
\* is bound to a variable of the if statement; the function-scope err keeps nil.
RegInsertUser(p) ==
    /\ reg[p].pc = "insert_user"
    /\ reg[p].username \notin PendingUsernames(p)
    /\ \E stmtFails \in BOOLEAN :
         reg' = [reg EXCEPT ![p] =
              IF stmtFails \/ UsernameExists(users, reg[p].username)
                THEN [@ EXCEPT !.pc = "deferred", !.ret = "CreateUserFailed"]
                ELSE [@ EXCEPT !.pc = "insert_account",
                               !.txUsers = <<[uuid |-> RegUUID(p),
                                              username |-> reg[p].username]>>]]
    /\ UNCHANGED <<users, user_account, ledgerVars, resVars, verifyVars>>

\* useraccRepo.CreateAccount(ctx, tx, newUser.UUID): the INSERT runs inside tx.
\* Its error too is bound to a variable of the if statement.
RegInsertAccount(p) ==
    /\ reg[p].pc = "insert_account"
    /\ \E stmtFails \in BOOLEAN :
         reg' = [reg EXCEPT ![p] =
              IF stmtFails \/ DuplicateKey(user_account, RegUUID(p))
                THEN [@ EXCEPT !.pc = "deferred", !.ret = "CreateAccountFailed"]
                ELSE [@ EXCEPT !.pc = "deferred", !.ret = "ok",
                               !.txAccounts = <<NewAccountRow(RegUUID(p))>>]]
    /\ UNCHANGED <<users, user_account, ledgerVars, resVars, verifyVars>>

\* the deferred function runs after the return value is fixed: tx.Rollback when
\* the function-scope err is set, tx.Commit otherwise (which may itself fail)
RegDeferred(p) ==
    /\ reg[p].pc = "deferred"
    /\ \E commitFails \in BOOLEAN :
         IF DeferredAction(reg[p].err) = "commit" /\ ~commitFails
           THEN /\ users' = users \o reg[p].txUsers
                /\ user_account' = user_account \o reg[p].txAccounts
                /\ reg' = [reg EXCEPT ![p].pc = "done", ![p].committed = TRUE,
                                      ![p].txUsers = <<>>, ![p].txAccounts = <<>>]
           ELSE /\ reg' = [reg EXCEPT ![p].pc = "done",
                                      ![p].txUsers = <<>>, ![p].txAccounts = <<>>]
                /\ UNCHANGED <<users, user_account>>
    /\ UNCHANGED <<ledgerVars, resVars, verifyVars>>

\* -------------------------------------------------------- resource counters

\* the resource CreateResource stores: counters zero (title, text and code are
\* sequences of characters)
NewResourceNoAuthor(id, owner, title, text, code, author) ==
    [id |-> id, user_id |-> owner, title |-> title, text_content |-> text,
     code_content |-> code, author |-> "",
     like_count |-> 0, view_count |-> 0, comment_count |-> 0]
NewResource(id, owner, title, text, code, author) ==
    [id |-> id, user_id |-> owner, title |-> title, text_content |-> text,
     code_content |-> code, author |-> author,
     like_count |-> 0, view_count |-> 0, comment_count |-> 0]

\* the rows the table resources holds when the server starts
InitialResources ==
    << NewResource(1, 1, <<"a">>, <<>>, <<>>, "alice"),
       NewResource(2, 1, <<"b">>, <<>>, <<"a", "b">>, "alice") >>

\* the column IncrViewCount / IncrLikeCount / IncrCommentCount adds one to
ColumnCopied(kind) == "view_count"
Column(kind) ==
    CASE kind = "view" -> "view_count"
      [] kind = "like" -> "like_count"
      [] OTHER -> "comment_count"

\* UPDATE resources SET <column> = <column> + 1 WHERE id = ?
IncrWhereAll(t, id, kind) ==
    [i \in DOMAIN t |-> [t[i] EXCEPT ![Column(kind)] = @ + 1]]
IncrWhere(t, id, kind) ==
    [i \in DOMAIN t |->
        IF t[i].id = id THEN [t[i] EXCEPT ![Column(kind)] = @ + 1] ELSE t[i]]

\* SELECT ... FROM resources WHERE id = ?
ResourceById(t, id) == SelectSeq(t, LAMBDA r : r.id = id)

\* the value of counter kind of resource id, 0 when there is no such resource
CountOf(t, id, kind) ==
    IF ResourceById(t, id) = <<>> THEN 0 ELSE ResourceById(t, id)[1][Column(kind)]

\* the id check of IncrLikeCount and CreateComment (IncrViewCount has none)
ChecksId(kind) == kind \in {"like", "comment"}

\* strings.TrimSpace: leading and trailing white space removed
RECURSIVE TrimLeft(_), TrimRight(_)
TrimLeft(s) == IF s # <<>> /\ Head(s) = " " THEN TrimLeft(Tail(s)) ELSE s

TrimRight(s) ==
    IF s # <<>> /\ s[Len(s)] = " " THEN TrimRight(SubSeq(s, 1, Len(s) - 1)) ELSE s

TrimSpaceNone(s) == s
TrimSpace(s) == TrimRight(TrimLeft(s))

RIdle == [pc |-> "idle", kind |-> "none", level |-> "none", id |-> 0, pre |-> 0,
          content |-> <<>>]

RNoReturn == [kind |-> "none", level |-> "none", id |-> 0, pre |-> 0,
              content |-> <<>>, res |-> "none"]

RReturned(c, content, res) ==
    [kind |-> c.kind, level |-> c.level, id |-> c.id, pre |-> c.pre,
     content |-> content, res |-> res]

\* ResourceServiceImpl.IncrViewCount / IncrLikeCount / CreateComment, or the
\* store operation directly: the checks that precede the UPDATE.  CreateComment
\* replaces content by its trimmed value before it looks at it.
IncrCall(p) ==
    /\ rcall[p].pc = "idle"
    /\ rstarted < MaxIncr
    /\ rstarted' = rstarted + 1
    /\ \E kind \in Kinds, level \in {"service", "store"}, id \in ResIds,
          content \in Contents :
         LET comment == kind = "comment" /\ level = "service"
             c == [RIdle EXCEPT !.kind = kind, !.level = level, !.id = id,
                                !.pre = CountOf(resources, id, kind)]
         IN  /\ content # <<>> => comment
             /\ IF level = "service" /\ ChecksId(kind) /\ id <= 0
                  THEN /\ rlast' = RReturned(c, content, "InvalidId")
                       /\ UNCHANGED rcall
                ELSE IF comment /\ TrimSpace(content) = <<>>
                  THEN /\ rlast' = RReturned(c, content, "BlankContent")
                       /\ UNCHANGED rcall
                ELSE /\ rcall' = [rcall EXCEPT ![p] =
                                    [c EXCEPT !.pc = "update",
                                              !.content = TrimSpace(content)]]
                     /\ UNCHANGED rlast
    /\ UNCHANGED <<users, user_account, ledgerVars, reg, resources, incremented, libVars, verifyVars>>

\* resourceRepoImpl.IncrViewCount / IncrLikeCount / IncrCommentCount: the UPDATE;
\* only the error of ExecContext is looked at
IncrUpdate(p) ==
    /\ rcall[p].pc = "update"
    /\ LET id == rcall[p].id
           kind == rcall[p].kind
       IN \/ /\ rlast' = RReturned(rcall[p], rcall[p].content, "StorageFailure")
             /\ UNCHANGED <<resources, incremented>>
          \/ /\ resources' = IncrWhere(resources, id, kind)
             /\ incremented' = [incremented EXCEPT ![id][kind] = @ + 1]
             /\ rlast' = RReturned(rcall[p], rcall[p].content, "ok")
    /\ rcall' = [rcall EXCEPT ![p] = RIdle]
    /\ UNCHANGED <<users, user_account, ledgerVars, reg, rstarted, libVars, verifyVars>>

\* ---------------------------------------------------------- resource library

\* One character of a title, a text or a keyword is one element of a sequence;
\* "U+4E2D" stands for a character UTF-8 encodes in three bytes.
ByteLen(ch) == IF ch = "U+4E2D" THEN 3 ELSE 1

\* len(s) of a Go string: its number of bytes
RECURSIVE ByteLength(_)
ByteLength(s) == IF s = <<>> THEN 0 ELSE ByteLen(Head(s)) + ByteLength(Tail(s))

\* the title checks of CreateResource, on the trimmed title
TitleError(title) ==
    IF title = <<>> THEN "EmptyTitle"
    ELSE IF ByteLength(title) > 100 THEN "TitleTooLong"
    ELSE "ok"

\* SELECT ... FROM users WHERE id = ?: the id of a user is its place in the
\* order of insertion
GetUserById(t, id) == IF id \in DOMAIN t THEN << t[id] >> ELSE << >>

\* UPDATE users SET username = ? WHERE uuid = ?
UpdateUsername(t, uuid, name) ==
    [i \in DOMAIN t |-> IF t[i].uuid = uuid THEN [t[i] EXCEPT !.username = name] ELSE t[i]]

\* A Go int, 64 bits in two's complement, as four 16-bit limbs, lowest first.
Base == 65536
Int64(n) == << n % Base, n \div Base, 0, 0 >>
IsNegative(x) == x[4] >= Base \div 2
LessThanOne(x) == IsNegative(x) \/ x = << 0, 0, 0, 0 >>

\* x - 1 of Go
MinusOne(x) ==
    IF x[1] > 0 THEN << x[1] - 1, x[2], x[3], x[4] >>
    ELSE IF x[2] > 0 THEN << Base - 1, x[2] - 1, x[3], x[4] >>
    ELSE IF x[3] > 0 THEN << Base - 1, Base - 1, x[3] - 1, x[4] >>
    ELSE << Base - 1, Base - 1, Base - 1, (x[4] + Base - 1) % Base >>

\* x * k of Go for a small k: the product modulo 2^64
Times(x, k) ==
    LET p1 == x[1] * k
        p2 == x[2] * k + (p1 \div Base)
        p3 == x[3] * k + (p2 \div Base)
        p4 == x[4] * k + (p3 \div Base)
    IN  << p1 % Base, p2 % Base, p3 % Base, p4 % Base >>

\* offset := (page - 1) * size
Offset(page, size) == Times(MinusOne(page), size)

\* a non-negative Go int that is small enough to be a number of rows
IsSmall(x) == x[4] = 0 /\ x[3] = 0 /\ x[2] < Base \div 2
ToNat(x) == x[1] + Base * x[2]

\* s LIKE pattern: % stands for any characters, _ for one
RECURSIVE Like(_, _)
Like(s, pattern) ==
    IF pattern = <<>> THEN s = <<>>
    ELSE IF Head(pattern) = "%"
      THEN Like(s, Tail(pattern)) \/ (s # <<>> /\ Like(Tail(s), pattern))
    ELSE IF Head(pattern) = "_"
      THEN s # <<>> /\ Like(Tail(s), Tail(pattern))
    ELSE s # <<>> /\ Head(s) = Head(pattern) /\ Like(Tail(s), Tail(pattern))

\* likeKeyword := fmt.Sprintf("%%%s%%", keyword)
LikeKeyword(keyword) == <<"%">> \o keyword \o <<"%">>

\* the WHERE clause of GetResourceList and CountResources
Matches(r, keyword) ==
    \/ keyword = <<>>
    \/ Like(r.title, LikeKeyword(keyword))
    \/ Like(r.text_content, LikeKeyword(keyword))
    \/ Like(r.code_content, LikeKeyword(keyword))

Matching(t, keyword) == SelectSeq(t, LAMBDA r : Matches(r, keyword))

\* SELECT COUNT(*) FROM resources [WHERE ...]
CountResources(t, keyword) == Len(Matching(t, keyword))

\* ORDER BY publish_time DESC: the latest insertion first
RECURSIVE Reverse(_)
Reverse(s) == IF s = <<>> THEN <<>> ELSE Reverse(Tail(s)) \o << Head(s) >>

\* SELECT ... FROM resources [WHERE ...] ORDER BY publish_time DESC LIMIT ?, ?
\* for an offset that is not negative: the ids of the rows
GetResourceList(t, offset, limit, keyword) ==
    LET m == Reverse(Matching(t, keyword))
        from == ToNat(offset) + 1
        to == IF from + limit - 1 < Len(m) THEN from + limit - 1 ELSE Len(m)
    IN  IF ~IsSmall(offset) \/ from > Len(m)
          THEN <<>>
          ELSE [i \in 1 .. (to - from + 1) |-> m[from + i - 1].id]

\* strconv.ParseUint(idStr, 10, 64) on few digits: the number, or -1 for an error
Digits == {"0", "1", "2", "3", "4", "5", "6", "7", "8", "9"}
DigitValue(ch) ==
    CASE ch = "0" -> 0 [] ch = "1" -> 1 [] ch = "2" -> 2 [] ch = "3" -> 3
      [] ch = "4" -> 4 [] ch = "5" -> 5 [] ch = "6" -> 6 [] ch = "7" -> 7
      [] ch = "8" -> 8 [] OTHER -> 9

RECURSIVE ParseDigits(_, _)
ParseDigits(s, acc) ==
    IF s = <<>> THEN acc
    ELSE IF Head(s) \notin Digits THEN -1
    ELSE ParseDigits(Tail(s), 10 * acc + DigitValue(Head(s)))

ParseUint(s) == IF s = <<>> THEN -1 ELSE ParseDigits(s, 0)

\* resourceRepoImpl.GetResourceByID: what Scan and the error handling make of
\* the rows of SELECT ... WHERE id = ? LIMIT 1
ScanNoRowsIsError(rows, fails) == IF fails \/ rows = <<>> THEN "error" ELSE "found"
ScanResource(rows, fails) ==
    IF fails THEN "error" ELSE IF rows = <<>> THEN "nil" ELSE "found"

\* ResourceDetailHandler: the code of the response body
DetailCode(res) ==
    CASE res = "BadId" -> 400
      [] res = "error" -> 500
      [] res = "nil"   -> 404
      [] OTHER         -> 200

\* a worker that executes no resource call
LIdle == [pc |-> "idle", op |-> "none", user_id |-> 0, title |-> <<>>, owner |-> <<>>,
          row |-> <<>>, page |-> Int64(0), size |-> 0, keyword |-> <<>>,
          total |-> 0, stamp |-> 0]

LNoReturn == [op |-> "none", res |-> "none", code |-> 0, user_id |-> 0, title |-> <<>>,
              owner |-> <<>>, row |-> <<>>, page |-> Int64(0), size |-> 0,
              keyword |-> <<>>, total |-> 0, stamp |-> 0, items |-> <<>>,
              rows |-> 0, matching |-> 0, idStr |-> <<>>, fault |-> FALSE]

\* what a resource call returned: row is the row CreateResource inserted, items
\* and total the results of GetResourceList; rows and matching are the number
\* of rows of the table and of those that matched when the call returned; fault
\* tells whether the query of a detail request failed
LReturned(c, res) ==
    [LNoReturn EXCEPT !.op = c.op, !.res = res, !.user_id = c.user_id,
                      !.title = c.title, !.owner = c.owner, !.page = c.page,
                      !.size = c.size, !.keyword = c.keyword, !.total = c.total,
                      !.stamp = c.stamp,
                      !.rows = Len(resources),
                      !.matching = CountResources(resources, c.keyword)]

LFinish(p, ret) ==
    /\ llast' = ret
    /\ lcall' = [lcall EXCEPT ![p] = LIdle]

\* ids of users CreateResource is called with
UserIds == 0 .. 2

\* ResourceServiceImpl.CreateResource up to the INSERT: the checks of userID and
\* of the title, the lookup of the owner, the resource that will be stored
CreateResourceWith(p, Titles, Texts, Codes) ==
    /\ lcall[p].pc = "idle"
    /\ Len(resources) + Cardinality({q \in LProcs : lcall[q].pc = "insert"}) < MaxResources
    /\ \E userID \in UserIds, title \in Titles, text \in Texts, code \in Codes,
          fails \in BOOLEAN :
         LET trimmed == TrimSpace(title)
             found == GetUserById(users, userID)
             c == [LIdle EXCEPT !.op = "Create", !.user_id = userID, !.title = title,
                                !.owner = found]
         IN  IF userID = 0
               THEN ~fails /\ LFinish(p, LReturned(c, "InvalidUser"))
             ELSE IF TitleError(trimmed) # "ok"
               THEN ~fails /\ LFinish(p, LReturned(c, TitleError(trimmed)))
             ELSE IF fails
               THEN LFinish(p, LReturned(c, "UserLookupFailed"))
             ELSE IF found = <<>>
               THEN LFinish(p, LReturned(c, "UserNotFound"))
             ELSE IF found[1].username = ""
               THEN LFinish(p, LReturned(c, "BlankUsername"))
             ELSE /\ lcall' = [lcall EXCEPT ![p] =
                       [c EXCEPT !.pc = "insert",
                                 !.row = NewResource(0, userID, trimmed, TrimSpace(text),
                                                     code, found[1].username)]]
                  /\ llast' = LNoReturn
    /\ UNCHANGED <<users, user_account, ledgerVars, reg, resources, counterVars, verifyVars>>

\* n times the character ch
RECURSIVE Repeat(_, _)
Repeat(ch, n) == IF n = 0 THEN <<>> ELSE <<ch>> \o Repeat(ch, n - 1)

\* CreateResource with titles around the limits: blank ones, ones of 100 and of
\* 101 characters, ones of 33, 34 and 100 characters of three bytes each
Titles ==
    { <<>>, <<" ">>, <<" ", "a", " ">>,
      Repeat("a", 100), <<" ">> \o Repeat("a", 100) \o <<" ">>, Repeat("a", 101),
      Repeat("U+4E2D", 33), Repeat("U+4E2D", 34), Repeat("U+4E2D", 100),
      Repeat("U+4E2D", 101) }

CreateResource(p) == CreateResourceWith(p, Titles, { <<"a", " ">> }, { <<>> })

\* CreateResource with titles of one character
CreateShort(p) == CreateResourceWith(p, { <<"a">>, <<"b">> }, { <<>> }, { <<>> })

\* resourceRepoImpl.CreateResource: the INSERT, which gives the row the next id
ResourceInsert(p) ==
    /\ lcall[p].pc = "insert"
    /\ \/ /\ LFinish(p, LReturned(lcall[p], "InsertFailed"))
          /\ UNCHANGED resources
       \/ LET row == [lcall[p].row EXCEPT !.id = Len(resources) + 1]
          IN  /\ resources' = Append(resources, row)
              /\ llast' = [LReturned(lcall[p], "ok") EXCEPT
                               !.row = row, !.rows = Len(resources) + 1]
              /\ lcall' = [lcall EXCEPT ![p] = LIdle]
    /\ UNCHANGED <<users, user_account, ledgerVars, reg, counterVars, verifyVars>>

\* userRepoImpl.UpdateUser with a username and no other field: one UPDATE; a
\* blank uuid or username, an unknown uuid and a username that is taken
\* change nothing
UpdateUser ==
    /\ \E uuid \in Idents, name \in Usernames :
         IF uuid = "" \/ name = "" \/ ~UserExists(users, uuid) \/ UsernameExists(users, name)
           THEN UNCHANGED users
           ELSE users' = UpdateUsername(users, uuid, name)
    /\ UNCHANGED <<user_account, ledgerVars, reg, resVars, verifyVars>>

\* pages, sizes and keywords GetResourceList is called with
BigPage   == << 1, 0, 0, 2048 >>      \* 2^59 + 1
HugePage  == << 0, 0, 0, 16384 >>     \* 2^62
Pages     == { Int64(0), Int64(1), Int64(2), Int64(3), BigPage, HugePage }
Sizes     == { 0, 1, 2, 32, 51 }
Keywords  == { <<>>, <<"a">>, <<"_">>, <<"c">> }

\* ResourceServiceImpl.GetResourceList up to the count: the checks of page and
\* size, CountResources, the empty answer when nothing is counted
GetResourceListCount(p) ==
    /\ lcall[p].pc = "idle"
    /\ \E page \in Pages, size \in Sizes, keyword \in Keywords, fails \in BOOLEAN :
         LET total == CountResources(resources, keyword)
             c == [LIdle EXCEPT !.op = "List", !.page = page, !.size = size,
                                !.keyword = keyword, !.stamp = Len(resources)]
         IN  IF LessThanOne(page)
               THEN ~fails /\ LFinish(p, LReturned(c, "InvalidPage"))
             ELSE IF size < 1 \/ size > 50
               THEN ~fails /\ LFinish(p, LReturned(c, "InvalidSize"))
             ELSE IF fails
               THEN LFinish(p, LReturned(c, "CountFailed"))
             ELSE IF total = 0
               THEN LFinish(p, LReturned(c, "ok"))
             ELSE /\ lcall' = [lcall EXCEPT ![p] = [c EXCEPT !.pc = "page", !.total = total]]
                  /\ llast' = LNoReturn
    /\ UNCHANGED <<users, user_account, ledgerVars, reg, resources, counterVars, verifyVars>>

\* the rest of GetResourceList: the offset, the page query (which the database
\* refuses when the offset is negative), the conversion of the rows
GetResourceListPage(p) ==
    /\ lcall[p].pc = "page"
    /\ LET c == lcall[p]
           offset == Offset(c.page, c.size)
       IN  \/ LFinish(p, LReturned(c, "ListFailed"))
           \/ /\ ~IsNegative(offset)
              /\ LFinish(p, [LReturned(c, "ok") EXCEPT
                               !.items = GetResourceList(resources, offset, c.size, c.keyword)])
    /\ UNCHANGED <<users, user_account, ledgerVars, reg, resources, counterVars, verifyVars>>

\* the id parameters /resource/detail is called with
IdStrs == { <<>>, <<"0">>, <<"1">>, <<"2">>, <<"3">>, <<"4">>, <<"0", "3">>,
            <<"x">>, <<"-", "1">> }

\* ResourceDetailHandler, with GetResourceByID of the service and of the store
ResourceDetail(p) ==
    /\ lcall[p].pc = "idle"
    /\ \E idStr \in IdStrs, fails \in BOOLEAN :
         LET id == ParseUint(idStr)
             res == IF idStr = <<>> \/ id <= 0
                      THEN "BadId"
                      ELSE ScanResource(ResourceById(resources, id), fails)
         IN  /\ res = "BadId" => ~fails
             /\ llast' = [LReturned([LIdle EXCEPT !.op = "Detail"], res) EXCEPT
                              !.idStr = idStr, !.code = DetailCode(res),
                              !.fault = fails]
    /\ UNCHANGED <<users, user_account, ledgerVars, reg, resources, counterVars, lcall, verifyVars>>

\* -------------------------------------------------------- verification codes

\* the codes that are sent, one after the other, and the codes callers pass
\* (0 is a code that was never sent)
Codes == 1 .. MaxCodes
InputCodes == 0 .. MaxCodes

\* the time a code stays valid: 5 minutes, one step of the clock
TTL == 1

\* time.Now().After(item.ExpireAt)
Expired(t, item) == t > item.expireAt

\* a worker that executes no call (at is the time at which a call began)
VIdle == [pc |-> "idle", input |-> 0, item |-> <<>>, at |-> 0]
VNoReturn == [input |-> 0, item |-> <<>>, res |-> "none", at |-> 0]

\* what a VerifyCodeFromMap call returned, with the item it had loaded and the
\* time at which it began
VReturned(c, res) == [input |-> c.input, item |-> c.item, res |-> res, at |-> c.at]

VFinish(p, res, c) ==
    /\ vlast' = VReturned(c, res)
    /\ vcall' = [vcall EXCEPT ![p] = VIdle]

\* saveCodeToMap: the next code is stored, valid for 5 minutes from now
SaveCode ==
    /\ issued < MaxCodes
    /\ issued' = issued + 1
    /\ codeStore' = << [code |-> issued + 1, expireAt |-> now + TTL] >>
    /\ UNCHANGED <<users, user_account, ledgerVars, reg, resVars, now, vcall, vlast, accepted>>

\* time passes
Tick ==
    /\ now < MaxTime
    /\ now' = now + 1
    /\ UNCHANGED <<users, user_account, ledgerVars, reg, resVars, codeStore, vcall, vlast,
                   accepted, issued>>

\* VerifyCodeFromMap: codeStore.Load(email)
VerifyLoad(p) ==
    /\ vcall[p].pc = "idle"
    /\ \E input \in InputCodes :
         LET c == [VIdle EXCEPT !.input = input, !.at = now]
         IN  IF codeStore = <<>>
               THEN VFinish(p, "Invalid", c)
               ELSE /\ vcall' = [vcall EXCEPT ![p] =
                                    [c EXCEPT !.pc = "check", !.item = codeStore[1]]]
                    /\ UNCHANGED vlast
    /\ UNCHANGED <<users, user_account, ledgerVars, reg, resVars, codeStore, now, accepted,
                   issued>>

\* VerifyCodeFromMap: the reading of the clock and the two checks of the item
\* that was loaded
VerifyCheck(p) ==
    /\ vcall[p].pc = "check"
    /\ IF Expired(now, vcall[p].item)
         THEN /\ vcall' = [vcall EXCEPT ![p].pc = "delete_expired"]
              /\ UNCHANGED vlast
       ELSE IF vcall[p].item.code # vcall[p].input
         THEN VFinish(p, "Wrong", vcall[p])
       ELSE /\ vcall' = [vcall EXCEPT ![p].pc = "delete_used"]
            /\ UNCHANGED vlast
    /\ UNCHANGED <<users, user_account, ledgerVars, reg, resVars, codeStore, now, accepted,
                   issued>>

\* VerifyCodeFromMap: codeStore.Delete(email), which removes whatever item the
\* email address has by now, and the return
VerifyDelete(p) ==
    /\ vcall[p].pc \in {"delete_expired", "delete_used"}
    /\ codeStore' = <<>>
    /\ IF vcall[p].pc = "delete_used"
         THEN /\ VFinish(p, "ok", vcall[p])
              /\ accepted' = [accepted EXCEPT ![vcall[p].item.code] = @ + 1]
         ELSE /\ VFinish(p, "Expired", vcall[p])
              /\ UNCHANGED accepted
    /\ UNCHANGED <<users, user_account, ledgerVars, reg, resVars, now, issued>>

\* ------------------------------------------------------------ specification

Init ==
    /\ users = << [uuid |-> "u1", username |-> "alice"] >>
    /\ \/ /\ user_account = << >>
          /\ recharged = [u \in Idents |-> 0]
       \/ \E r \in 0 .. MaxInitial :
             /\ user_account = << RechargedRow("u1", r) >>
             /\ recharged = [u \in Idents |-> IF u = "u1" THEN r ELSE 0]
    /\ call = [p \in Procs |-> Idle]
    /\ last = NoReturn
    /\ started = 0
    /\ reg = [p \in RegProcs |-> RegIdle]
    /\ resources = InitialResources
    /\ rcall = [p \in CProcs |-> RIdle]
    /\ rlast = RNoReturn
    /\ rstarted = 0
    /\ incremented = [id \in ResIds |-> [k \in Kinds |-> 0]]
    /\ lcall = [p \in LProcs |-> LIdle]
    /\ llast = LNoReturn
    /\ codeStore = <<>>
    /\ now = 0
    /\ vcall = [p \in VProcs |-> VIdle]
    /\ vlast = VNoReturn
    /\ accepted = [c \in Codes |-> 0]
    /\ issued = 0

Next ==
    \E p \in Procs :
        \/ Call(p)
        \/ CallCreate(p)
        \/ RechargeUpdate(p)
        \/ DeductRead(p)
        \/ DeductUpdate(p)
        \/ Reread(p)
        \/ CreateInsert(p)

Spec == Init /\ [][Next]_vars

\* One call at a time, entered at any level.
AllIdle == \A q \in Procs : call[q].pc = "idle"

SerialCall(p) == AllIdle /\ CallAt(p, Levels)

SerialCreate(p) == AllIdle /\ CallCreate(p)

NextSerial ==
    \E p \in Procs :
        \/ SerialCall(p)
        \/ SerialCreate(p)
        \/ RechargeUpdate(p)
        \/ DeductRead(p)
        \/ DeductUpdate(p)
        \/ Reread(p)
        \/ CreateInsert(p)

SpecSerial == Init /\ [][NextSerial]_vars

\* All four ledger operations, concurrent.
NextLedger ==
    \/ Next
    \/ \E p \in Procs : CallGet(p)

SpecLedger == Init /\ [][NextLedger]_vars

\* Concurrent requests to the account endpoints.
NextEndpoint ==
    \E p \in Procs :
        \/ Request(p)
        \/ RechargeUpdate(p)
        \/ DeductRead(p)
        \/ DeductUpdate(p)
        \/ Reread(p)

SpecEndpoint == Init /\ [][NextEndpoint]_vars

\* Requests to the account endpoints, one at a time, with any uuid field in the
\* body, when two users have accounts.
SerialRequest == AllIdle /\ \E p \in Procs : RequestAnyBody(p)

NextTwoAccounts ==
    \/ SerialRequest
    \/ \E p \in Procs : RechargeUpdate(p)
    \/ \E p \in Procs : DeductRead(p)
    \/ \E p \in Procs : DeductUpdate(p)
    \/ \E p \in Procs : Reread(p)

InitTwoAccounts ==
    /\ users = << [uuid |-> "u1", username |-> "alice"],
                  [uuid |-> "u2", username |-> "bob"] >>
    /\ user_account = << RechargedRow("u1", MaxInitial), RechargedRow("u2", MaxInitial) >>
    /\ recharged = [u \in Idents |-> IF u = "" THEN 0 ELSE MaxInitial]
    /\ call = [p \in Procs |-> Idle]
    /\ last = NoReturn
    /\ started = 0
    /\ reg = [p \in RegProcs |-> RegIdle]
    /\ resources = InitialResources
    /\ rcall = [p \in CProcs |-> RIdle]
    /\ rlast = RNoReturn
    /\ rstarted = 0
    /\ incremented = [id \in ResIds |-> [k \in Kinds |-> 0]]
    /\ lcall = [p \in LProcs |-> LIdle]
    /\ llast = LNoReturn
    /\ codeStore = <<>>
    /\ now = 0
    /\ vcall = [p \in VProcs |-> VIdle]
    /\ vlast = VNoReturn
    /\ accepted = [c \in Codes |-> 0]
    /\ issued = 0

SpecTwoAccounts == InitTwoAccounts /\ [][NextTwoAccounts]_vars

\* Concurrent CreateResource calls and renamings of users.
NextCreate ==
    \/ \E p \in LProcs : CreateResource(p)
    \/ \E p \in LProcs : ResourceInsert(p)
    \/ UpdateUser

SpecCreate == Init /\ [][NextCreate]_vars

\* GetResourceList calls of one worker while another creates resources.
NextList ==
    \/ GetResourceListCount("l1")
    \/ GetResourceListPage("l1")
    \/ CreateShort("l2")
    \/ ResourceInsert("l2")

SpecList == Init /\ [][NextList]_vars

\* Concurrent requests to /resource/detail while resources are created.
NextDetail ==
    \/ \E p \in LProcs : ResourceDetail(p)
    \/ \E p \in LProcs : CreateShort(p)
    \/ \E p \in LProcs : ResourceInsert(p)

SpecDetail == Init /\ [][NextDetail]_vars

\* Concurrent VerifyCodeFromMap calls while codes are sent and time passes.
NextVerify ==
    \/ SaveCode
    \/ Tick
    \/ \E p \in VProcs : VerifyLoad(p)
    \/ \E p \in VProcs : VerifyCheck(p)
    \/ \E p \in VProcs : VerifyDelete(p)

SpecVerify == Init /\ [][NextVerify]_vars

\* Concurrent Register calls.
NextRegister ==
    \E p \in RegProcs :
        \/ RegBegin(p)
        \/ RegInsertUser(p)
        \/ RegInsertAccount(p)
        \/ RegDeferred(p)

SpecRegister == Init /\ [][NextRegister]_vars

\* Concurrent counter calls.
NextCounter ==
    \E p \in CProcs :
        \/ IncrCall(p)
        \/ IncrUpdate(p)

SpecCounter == Init /\ [][NextCounter]_vars

\* ------------------------------------------------------------------ claims

Money == {"Recharge", "Deduct"}

\* results that report a failure of the storage layer itself
Faults == {"StorageFailure", "UserLookupFailed", "RereadFailed"}

\* the step is a step of worker p
StepOf(p) == call'[p] # call[p] \/ (call[p].pc = "idle" /\ last' # last)

\* worker p's store operation (statement at pc) is acknowledged in this step
Acked(p, pc) ==
    /\ call[p].pc = pc
    /\ \/ call'[p].pc = "s_reread"
       \/ call'[p].pc = "idle" /\ last'.res = "ok"

\* C1: in every reachable state, under every interleaving of Recharge and
\* Deduct, every account has balance = total_recharge - total_consume.
C1_BalanceEquation ==
    \A i \in DOMAIN user_account :
        user_account[i].balance =
            user_account[i].total_recharge - user_account[i].total_consume

\* an account that a Recharge and a Deduct have both changed
C1_Witness ==
    \E i \in DOMAIN user_account :
        /\ user_account[i].total_recharge > MaxInitial
        /\ user_account[i].total_consume > 0

\* C2: in every reachable state every account's balance is >= 0, also when
\* Deducts whose read and update are separate steps interleave.
C2_NonNegativeBalance ==
    \A i \in DOMAIN user_account : user_account[i].balance >= 0

\* C5: total_recharge is exactly the sum of the acknowledged recharges, and
\* balance is that sum minus total_consume: none is lost or applied twice.
C5_RechargeExact ==
    \A i \in DOMAIN user_account :
        LET r == user_account[i] IN
        /\ r.total_recharge = recharged[r.user_uuid]
        /\ r.balance = recharged[r.user_uuid] - r.total_consume

\* two service-level Recharges of one account, both past their UPDATE and
\* neither returned yet
C5_Witness ==
    \E p, q \in Procs :
        /\ p # q
        /\ call[p].op = "Recharge" /\ call[p].pc = "s_reread"
        /\ call[q].op = "Recharge" /\ call[q].pc = "s_reread"
        /\ call[p].uuid = call[q].uuid
        /\ call[p].pre # <<>> /\ call[q].pre = call[p].pre
        /\ Lookup(user_account, call[p].uuid)[1].total_recharge =
              call[p].pre[1].total_recharge + call[p].amount + call[q].amount

\* C7: an acknowledged Recharge adds amount to the balance and total_recharge of
\* the account named and changes nothing else; an acknowledged Deduct subtracts
\* amount from its balance, adds it to total_consume and changes nothing else.
C7_FrameStep(p) ==
    LET u == call[p].uuid
        a == call[p].amount
        rowsOk(db, dr, dc) ==
            /\ DOMAIN user_account' = DOMAIN user_account
            /\ \A i \in DOMAIN user_account :
                 LET r == user_account[i]
                     n == user_account'[i]
                 IN  IF r.user_uuid = u
                       THEN /\ n.user_uuid = u
                            /\ n.balance = r.balance + db
                            /\ n.total_recharge = r.total_recharge + dr
                            /\ n.total_consume = r.total_consume + dc
                       ELSE n = r
    IN  /\ Acked(p, "r_update") => rowsOk(a, a, 0)
        /\ Acked(p, "d_update") => rowsOk(0 - a, 0, a)

C7_FrameEffect == [][\A p \in Procs : C7_FrameStep(p)]_vars

\* a Recharge or Deduct acknowledged while a second account exists
C7_Witness ==
    /\ Len(user_account) = 2
    /\ last.op \in Money /\ last.res = "ok"
    /\ user_account[1].user_uuid = last.uuid
    /\ user_account[2].user_uuid # last.uuid

\* C9: Recharge and Deduct for an identity without an account row answer
\* not-found (user or account), create no row and change no account.
C9_State ==
    /\ last.op \in Money /\ last.res = "ok"
          => Lookup(user_account, last.uuid) # <<>>
    /\ ( /\ last.op \in Money /\ last.amount > 0
         /\ last.level = "store" \/ last.uuid # ""
         /\ Lookup(user_account, last.uuid) = <<>> )
          => last.res \in {"UserNotFound", "AccountNotFound"} \cup Faults

C9_Step(p) ==
    ( /\ StepOf(p)
      /\ call[p].op \in Money
      /\ Lookup(user_account, call[p].uuid) = <<>> )
        => user_account' = user_account

C9_NoAccount == [][C9_State' /\ \A p \in Procs : C9_Step(p)]_vars

\* the service found the user but the store found no account row
C9_Witness ==
    /\ last.op = "Recharge" /\ last.level = "service"
    /\ last.res = "AccountNotFound"
    /\ Lookup(user_account, last.uuid) = <<>>

\* C10: there is at most one account row per identity; CreateAccount for an
\* identity that has a row fails with Conflict and leaves the table as it was.
C10_Unique ==
    \A i, j \in DOMAIN user_account :
        user_account[i].user_uuid = user_account[j].user_uuid => i = j

C10_State ==
    /\ C10_Unique
    /\ ( /\ last.op = "CreateAccount" /\ last.pre # <<>>
         /\ last.level = "store" \/ last.uuid # "" )
          => last.res \in {"Conflict", "StorageFailure"}
    /\ last.op = "CreateAccount" /\ last.res = "Conflict"
          => Lookup(user_account, last.uuid) # <<>>

C10_Step(p) ==
    ( /\ StepOf(p)
      /\ call[p].pc = "c_insert"
      /\ Lookup(user_account, call[p].uuid) # <<>> )
        => /\ user_account' = user_account
           /\ last'.res \in {"Conflict", "StorageFailure"}

C10_OneAccount == [][C10_State' /\ \A p \in Procs : C10_Step(p)]_vars

\* two CreateAccount calls for one identity raced: the loser saw no row when it
\* started and got Conflict
C10_Witness ==
    /\ last.op = "CreateAccount" /\ last.res = "Conflict"
    /\ last.pre = <<>>
    /\ Len(Lookup(user_account, last.uuid)) = 1

\* C3: after a Register call has completed, a user row for its identity is
\* persisted iff an account row for it is persisted.
C3_UserIffAccount ==
    \A p \in RegProcs :
        reg[p].pc = "done" =>
            (UserExists(users, RegUUID(p)) <=> Lookup(user_account, RegUUID(p)) # <<>>)

\* C4: every counter of every resource equals the number of increments
\* acknowledged for it, whatever the interleaving of the calls.
C4_NoLostIncrement ==
    \A i \in DOMAIN resources :
        LET r == resources[i] IN
        /\ r.like_count = incremented[r.id]["like"]
        /\ r.view_count = incremented[r.id]["view"]
        /\ r.comment_count = incremented[r.id]["comment"]

\* a like that started at count 0 returned when the count was 2: another like
\* of the same resource was applied while it was in flight
C4_Witness ==
    /\ rlast.kind = "like" /\ rlast.res = "ok" /\ rlast.pre = 0
    /\ CountOf(resources, rlast.id, "like") = 2
    /\ \A p \in CProcs : rcall[p].pc = "idle"

\* C6: with one call at a time, Deduct(amount > 0) on an existing account
\* succeeds iff balance >= amount; otherwise it fails with InsufficientFunds and
\* the account keeps its values.
C6_SerialDeduct ==
    ( /\ AllIdle
      /\ last.op = "Deduct" /\ last.amount > 0 /\ last.pre # <<>>
      /\ last.res \notin Faults \cup {"UserNotFound", "InvalidIdentity"} )
        => LET b   == last.pre[1].balance
               row == Lookup(user_account, last.uuid)[1]
           IN  /\ last.res = "ok" <=> b >= last.amount
               /\ b >= last.amount =>
                    row = [last.pre[1] EXCEPT !.balance = b - last.amount,
                                              !.total_consume = @ + last.amount]
               /\ b < last.amount =>
                    /\ last.res = "InsufficientFunds"
                    /\ row = last.pre[1]

\* a Deduct of exactly the whole balance has succeeded and left balance 0
C6_Witness ==
    /\ AllIdle
    /\ last.op = "Deduct" /\ last.res = "ok" /\ last.amount > 0
    /\ last.pre # <<>> /\ last.pre[1].balance = last.amount
    /\ Lookup(user_account, last.uuid)[1].balance = 0

\* C8: Recharge and Deduct with amount <= 0 answer a validation error at the
\* handler, the service and the store, and no statement is issued for them.
C8_NonPositiveRejected ==
    /\ \A p \in Procs : call[p].op \in Money => call[p].amount > 0
    /\ last.op \in Money /\ last.amount <= 0
          => /\ last.res \in {"InvalidAmount", "InvalidIdentity"}
             /\ last.level = "handler" => last.code = 400
             /\ AllIdle => Lookup(user_account, last.uuid) = last.pre

\* a store-level call with amount 0 on an existing account was rejected
C8_Witness ==
    /\ last.op \in Money /\ last.level = "store" /\ last.amount = 0
    /\ last.res = "InvalidAmount"
    /\ last.pre # <<>>

\* C11: from one state to the next, under every interleaving of CreateAccount,
\* Recharge, Deduct and GetAccount (failed calls included), no account's
\* total_recharge or total_consume decreases, and no account row disappears.
C11_TotalsStep ==
    /\ Len(user_account') >= Len(user_account)
    /\ \A i \in DOMAIN user_account :
          /\ user_account'[i].user_uuid = user_account[i].user_uuid
          /\ user_account'[i].total_recharge >= user_account[i].total_recharge
          /\ user_account'[i].total_consume >= user_account[i].total_consume

C11_TotalsMonotonic == [][C11_TotalsStep]_vars

\* a GetAccount has returned the snapshot of an account whose balance a Deduct
\* brought below its total_recharge
C11_Witness ==
    /\ last.op = "GetAccount" /\ last.res = "ok" /\ last.snap # <<>>
    /\ last.snap[1].total_consume > 0
    /\ last.snap[1].balance < last.snap[1].total_recharge

\* C12: an increment of any of the three counters for an id that no resource
\* has does not return ok.
C12_MissingIdNotOk ==
    ( /\ rlast.kind \in Kinds
      /\ ResourceById(resources, rlast.id) = <<>> )
        => rlast.res # "ok"

\* worker p's UPDATE of a counter is acknowledged in this step
RAcked(p) ==
    /\ rcall[p].pc = "update"
    /\ rcall'[p].pc = "idle"
    /\ rlast'.res = "ok"

\* C13: an acknowledged increment adds one to the counter it names of the
\* resource it names and leaves every other field of that resource and every
\* other resource as they were; no step removes a resource or lowers a counter.
C13_Step ==
    /\ DOMAIN resources' = DOMAIN resources
    /\ \A i \in DOMAIN resources :
          LET r == resources[i]
              n == resources'[i]
          IN  /\ n.like_count >= r.like_count
              /\ n.view_count >= r.view_count
              /\ n.comment_count >= r.comment_count
              /\ \A p \in CProcs :
                    RAcked(p) =>
                      IF r.id # rcall[p].id THEN n = r
                      ELSE CASE rcall[p].kind = "like" ->
                                  n = [r EXCEPT !.like_count = @ + 1]
                             [] rcall[p].kind = "view" ->
                                  n = [r EXCEPT !.view_count = @ + 1]
                             [] OTHER ->
                                  n = [r EXCEPT !.comment_count = @ + 1]

C14_IdValidated ==
    ( /\ rlast.level = "service"
      /\ rlast.kind \in {"view", "like"}
      /\ rlast.id < 1 )
        => rlast.res = "InvalidId"

\* a text that consists of white space only (or of nothing)
IsBlankText(s) == \A i \in DOMAIN s : s[i] = " "

\* C15: CreateComment with id < 1 or with a blank content answers a validation
\* error and issues no UPDATE; an acknowledged CreateComment for an existing
\* resource adds exactly one to its comment_count.
C15_Step ==
    /\ \A p \in CProcs :
          rcall'[p].kind = "comment" /\ rcall'[p].level = "service"
            => rcall'[p].id >= 1 /\ ~IsBlankText(rcall'[p].content)
    /\ ( /\ rlast' # rlast
         /\ rlast'.kind = "comment" /\ rlast'.level = "service"
         /\ rlast'.id < 1 \/ IsBlankText(rlast'.content) )
          => /\ rlast'.res \in {"InvalidId", "BlankContent"}
             /\ resources' = resources
    /\ \A p \in CProcs :
          ( /\ RAcked(p)
            /\ rcall[p].kind = "comment" /\ rcall[p].level = "service"
            /\ ResourceById(resources, rcall[p].id) # <<>> )
              => ResourceById(resources', rcall[p].id)[1].comment_count =
                   ResourceById(resources, rcall[p].id)[1].comment_count + 1

C15_CreateComment == [][C15_Step]_vars

\* a service-level comment with a non-blank text was acknowledged for resource 1
\* and raised its comment_count from 0 to 1
C15_Witness ==
    /\ rlast.kind = "comment" /\ rlast.level = "service" /\ rlast.res = "ok"
    /\ rlast.id = 1 /\ rlast.content = <<"a">> /\ rlast.pre = 0
    /\ resources[1].comment_count = 1

\* the failures of the Deduct endpoint that the caller must be able to tell apart
DeductFailures == {"InsufficientFunds", "AccountNotFound", "InvalidAmount"}

\* C16: the code the Deduct endpoint answers for insufficient funds, for a
\* missing account and for a non-positive amount differs from the code it
\* answers for each other of the three, and from the code of a storage failure.
C16_DistinctCategories ==
    ( /\ last.level = "handler" /\ last.op = "Deduct"
      /\ last.res \in DeductFailures )
        => \A other \in (DeductFailures \cup {"StorageFailure"}) \ {last.res} :
              last.code # EndpointCode("Deduct", other)

\* C17: the get-account endpoint answers, for an identity without an account
\* row, a code that is neither the code of a refused identity nor the code of a
\* storage failure; for an identity with an account it answers the account.
C17_NotFoundDistinct ==
    /\ ( /\ last.op = "GetAccount" /\ last.level = "handler"
         /\ last.res = "AccountNotFound" )
          => /\ last.code # 401
             /\ last.code # HandlerCode("GetAccount", "StorageFailure")
    /\ last.op = "GetAccount" /\ last.res = "ok"
          => /\ last.pre # <<>>
             /\ last.snap = <<last.pre[1]>>

\* the record r belongs to a request without a valid authenticated identity
Unauthenticated(r) ==
    \/ r.auth \in {"none", "malformed", "invalid"}
    \/ r.auth = "valid" /\ r.uuid = ""

\* C19: a request to an account endpoint without a valid authenticated identity
\* is answered 401, never becomes a call of the ledger service, and leaves the
\* accounts as they were.
C19_Step ==
    /\ Unauthenticated(last')
          => last'.res = "Unauthenticated" /\ last'.code = 401
    /\ \A p \in Procs : ~Unauthenticated(call'[p])
    /\ started' # started => user_account' = user_account

C19_UnauthenticatedRefused == [][C19_Step]_vars

\* a Deduct request with a token that does not verify, claiming the identity of
\* an account that could have paid, was refused
C19_Witness ==
    /\ last.op = "Deduct" /\ last.auth = "invalid" /\ last.uuid = "u1"
    /\ last.amount = 1 /\ last.res = "Unauthenticated"
    /\ last.pre # <<>> /\ last.pre[1].balance >= 1
    /\ Lookup(user_account, "u1") = last.pre

\* C18: the snapshot a successful service-level Recharge or Deduct returns was
\* read after its own update: its total_recharge (total_consume) is at least the
\* value the account had when the call began plus the amount of the call.
C18_SnapshotIncludesUpdate ==
    ( /\ last.level = "service" /\ last.op \in Money /\ last.res = "ok" )
        => LET before == IF last.pre = <<>> THEN NewAccountRow(last.uuid)
                         ELSE last.pre[1]
           IN  /\ last.snap # <<>>
               /\ last.op = "Recharge" =>
                    last.snap[1].total_recharge >=
                        before.total_recharge + last.amount
               /\ last.op = "Deduct" =>
                    last.snap[1].total_consume >=
                        before.total_consume + last.amount

\* a Recharge returned a snapshot that also holds the recharge of another call
\* which ran between its start and its re-read
C18_Witness ==
    /\ last.level = "service" /\ last.op = "Recharge" /\ last.res = "ok"
    /\ last.pre # <<>>
    /\ last.snap[1].total_recharge > last.pre[1].total_recharge + last.amount

\* C20: the store operation CreateAccount, called with an empty identity, fails
\* (with a validation error, or because the storage layer failed) and no
\* account row with an empty identity ever exists.
C20_EmptyIdentityRejected ==
    /\ ( /\ last.op = "CreateAccount" /\ last.level = "store"
         /\ last.uuid = "" )
          => last.res \in {"InvalidIdentity", "StorageFailure"}
    /\ Lookup(user_account, "") = <<>>

\* C26: with one call at a time, when a service-level Recharge or Deduct has
\* returned an error, the account it named is as it was when the call began.
C26_ErrorLeavesAccount ==
    ( /\ AllIdle
      /\ last.level = "service" /\ last.op \in Money
      /\ last.res # "ok" )
        => Lookup(user_account, last.uuid) = last.pre

\* C27: a Register call that has returned the success response has committed
\* its transaction, and its user row and account row are in the tables.
C27_SuccessOnlyIfCommitted ==
    \A p \in RegProcs :
        reg[p].pc = "done" /\ reg[p].ret = "ok"
          => /\ reg[p].committed
             /\ UserExists(users, RegUUID(p))
             /\ Lookup(user_account, RegUUID(p)) # <<>>

\* C28: the recharge and deduct endpoints hand the service the identity of the
\* request context, whatever the uuid field of the body says: every step of a
\* request leaves the accounts of all other identities as they were, and an
\* acknowledged update changes the account of the context identity by the amount.
C28_Step(p) ==
    LET u == call[p].ident
        a == call[p].amount
        rowsOk(db, dr, dc) ==
            /\ DOMAIN user_account' = DOMAIN user_account
            /\ \A i \in DOMAIN user_account :
                 LET r == user_account[i]
                     n == user_account'[i]
                 IN  IF r.user_uuid = u
                       THEN n = [r EXCEPT !.balance = @ + db,
                                          !.total_recharge = @ + dr,
                                          !.total_consume = @ + dc]
                       ELSE n = r
    IN  /\ call'[p].level = "handler" => call'[p].uuid = call'[p].ident
        /\ call[p].level = "handler" =>
              /\ Acked(p, "r_update") => rowsOk(a, a, 0)
              /\ Acked(p, "d_update") => rowsOk(0 - a, 0, a)
              /\ StepOf(p) /\ ~Acked(p, "r_update") /\ ~Acked(p, "d_update")
                    => user_account' = user_account

C28_IdentityFromContext == [][\A p \in Procs : C28_Step(p)]_vars

\* the update of a Deduct request of u1 whose body named u2 was acknowledged;
\* the account of u2 is as it was at the start and the account of u1 has paid
C28_Witness ==
    \E p \in Procs :
        /\ call[p].level = "handler" /\ call[p].op = "Deduct" /\ call[p].pc = "s_reread"
        /\ call[p].ident = "u1" /\ call[p].body = "u2"
        /\ Lookup(user_account, "u2") = <<RechargedRow("u2", MaxInitial)>>
        /\ Lookup(user_account, "u1")[1].total_consume = call[p].amount

\* a CreateResource call returns in this step
CreateReturns == llast' # llast /\ llast'.op = "Create"

\* C21: CreateResource refuses every title that is empty after trimming or
\* longer than 100 characters and stores no row for it, and it does not refuse
\* for its title a title of 1 to 100 characters, counted in characters, when
\* the owner exists.
C21_Step ==
    CreateReturns =>
        LET n == Len(TrimSpace(llast'.title))
        IN  /\ (n = 0 \/ n > 100) =>
                  /\ llast'.res \in {"InvalidUser", "EmptyTitle", "TitleTooLong"}
                  /\ resources' = resources
            /\ (1 <= n /\ n <= 100 /\ llast'.owner # <<>>) =>
                  llast'.res \notin {"EmptyTitle", "TitleTooLong"}

C21_TitleLimit == [][C21_Step]_vars

\* C22: the step in which CreateResource succeeds adds one row whose three
\* counters are zero and whose author is the username the owner had when the
\* call looked the owner up; no step changes the author of a row there is, a
\* change of a username included.
C22_Step ==
    /\ (CreateReturns /\ llast'.res = "ok") =>
          /\ resources' = Append(resources, llast'.row)
          /\ llast'.row.like_count = 0
          /\ llast'.row.view_count = 0
          /\ llast'.row.comment_count = 0
          /\ llast'.row.user_id = llast'.user_id
          /\ llast'.row.author = llast'.owner[1].username
    /\ \A i \in DOMAIN resources :
          i \in DOMAIN resources' /\ resources'[i].author = resources[i].author
    /\ users' # users => resources' = resources

ListReturned == llast.op = "List" /\ llast.res = "ok"
ListUndisturbed == ListReturned /\ llast.rows = llast.stamp

\* min(size, max(0, M - (page - 1) * size)) in the integers, for M rows that
\* match; a page beyond the small numbers is past the end of every table
ExpectedItems(page, size, M) ==
    IF ~IsSmall(page) THEN 0
    ELSE LET rest == M - (ToNat(page) - 1) * size
         IN  IF rest <= 0 THEN 0 ELSE IF rest < size THEN rest ELSE size

\* C23: a GetResourceList call with page < 1 or size outside 1..50 is refused;
\* one that returns while no row is inserted returns the number of matching
\* rows as total and min(size, max(0, M - (page - 1) * size)) items.
C23_Pagination ==
    /\ ( llast.op = "List" /\ (LessThanOne(llast.page) \/ llast.size < 1 \/ llast.size > 50) )
          => llast.res \in {"InvalidPage", "InvalidSize"}
    /\ ListUndisturbed =>
          /\ llast.total = llast.matching
          /\ Len(llast.items) = ExpectedItems(llast.page, llast.size, llast.matching)

\* keyword occurs in s as a run of consecutive characters
Contains(s, keyword) ==
    \E i \in 0 .. (Len(s) - Len(keyword)) : SubSeq(s, i + 1, i + Len(keyword)) = keyword

HasKeyword(r, keyword) ==
    \/ Contains(r.title, keyword)
    \/ Contains(r.text_content, keyword)
    \/ Contains(r.code_content, keyword)

\* C24: for a keyword that is not empty, GetResourceList counts exactly the rows
\* whose title, text or code contains the keyword, and lists only such rows.
C24_KeywordFilter ==
    ( ListUndisturbed /\ llast.keyword # <<>> ) =>
        /\ llast.total = Cardinality({i \in DOMAIN resources :
                                         HasKeyword(resources[i], llast.keyword)})
        /\ \A k \in DOMAIN llast.items :
              \E i \in DOMAIN resources :
                  /\ resources[i].id = llast.items[k]
                  /\ HasKeyword(resources[i], llast.keyword)

\* C30: a GetResourceList call that returns at least one item reports a total
\* that is not below the number of rows that match when its page query runs,
\* and a call that counted no row returns no item.
C30_TotalCoversPage ==
    ListReturned =>
        /\ Len(llast.items) >= 1 => llast.total >= llast.matching
        /\ llast.total = 0 => llast.items = <<>>

\* C25: a detail request for an id of at least 1 that no resource has ever been
\* given, whose query does not fail, finds no resource, gets no error and is
\* answered with code 404.
C25_MissingIsNotFound ==
    ( /\ llast.op = "Detail"
      /\ ParseUint(llast.idStr) >= 1
      /\ ParseUint(llast.idStr) > Len(resources)
      /\ ~llast.fault )
        => llast.res = "nil" /\ llast.code = 404

\* a request for id 3 was answered with 404 while the table held two resources
C25_Witness ==
    /\ llast.op = "Detail" /\ llast.idStr = <<"3">> /\ ~llast.fault
    /\ Len(resources) = 2
    /\ llast.res = "nil" /\ llast.code = 404

\* C29: no code is accepted by more than one VerifyCodeFromMap call, and a call
\* that begins after the code it finds has expired is refused as expired.
C29_AcceptedOnce ==
    /\ \A c \in Codes : accepted[c] <= 1
    /\ ( vlast.res # "none" /\ vlast.item # <<>> /\ Expired(vlast.at, vlast.item) )
          => vlast.res = "Expired"

====
